---- MODULE Spec2Model ----
(***************************************************************************)
(* ringbufdev: a character device holding one dynamic circular byte queue  *)
(* (struct ringbuf rb), driven by three ioctl commands: SET_SIZE_OF_QUEUE, *)
(* PUSH_DATA and POP_DATA (src/kernel/common.h, lines 60-332).             *)
(*                                                                         *)
(* Two specifications are given over the same state.                       *)
(*   SerialSpec  every ioctl handler runs to completion (or to the point   *)
(*               where POP_DATA goes to sleep) in one step: the behaviour  *)
(*               of the ring operations under the mutual exclusion their   *)
(*               comments ask for ("caller must hold mutex").              *)
(*   Spec        the handlers as the kernel runs them: one step per        *)
(*               statement that touches shared state, callers interleaved. *)
(***************************************************************************)
EXTENDS Integers, Sequences, FiniteSets, TLC

(* ------------------------------ bounds -------------------------------- *)
\* largest capacity a caller asks SET_SIZE_OF_QUEUE for
MaxCap == 2
\* largest ud.length a caller passes to PUSH_DATA / POP_DATA
MaxLen == 2

\* the concurrent callers
Procs == {1, 2}
\* the byte values pushed and found in fresh memory under SerialSpec
Bytes == {"a", "b"}
\* the same under Spec: ringbuf_ioctl never looks at the value of a byte
StepBytes == {"a"}

(* ------------------------- program constants -------------------------- *)
EINVAL == 22
ENOMEM == 12
EFAULT == 14
ENOSPC == 28
ERESTARTSYS == 512
\* size_t arithmetic wraps.  The kernel's size_t is 64 bits wide; TLC's
\* integers are 32 bits wide, so the model wraps at 2^20, far above every
\* value it stores: a difference wraps in the model exactly when it wraps
\* in the kernel.
SIZE_T_MOD == 1048576

SizeT(x) == x % SIZE_T_MOD

NULL == << >>
NoProc == 0

Min(a, b) == IF a < b THEN a ELSE b

\* the byte strings of length n over B a caller can hand to PUSH_DATA
DataOfLen(n, B) == [1..n -> B]
Datas == UNION {DataOfLen(n, Bytes) : n \in 1..MaxLen}

(* ---------------------- struct ringbuf, pure part ---------------------- *)
\* rb.buf is a sequence (index k of the C array is element k+1); NULL is << >>

\* static struct ringbuf rb: zero-filled static storage
RbZero == [buf |-> NULL, size |-> 0, head |-> 0, tail |-> 0, count |-> 0]

\* a ringbuf_free that leaves rb.head as it was
RingbufFreeKeepHead(r) ==
    [buf |-> NULL, size |-> 0, head |-> r.head, tail |-> 0, count |-> 0]

\* ringbuf_free
RingbufFree(r) == [buf |-> NULL, size |-> 0, head |-> 0, tail |-> 0, count |-> 0]

\* a ringbuf_init that forgets rb.size = size
RingbufInitRbNoSize(r, sz, mem) ==
    [r EXCEPT !.buf = mem, !.head = 0, !.tail = 0, !.count = 0]

\* ringbuf_init, the part after a successful kmalloc; mem is what kmalloc
\* returned (sz bytes of uninitialised memory)
RingbufInitRb(r, sz, mem) ==
    [r EXCEPT !.buf = mem, !.size = sz, !.head = 0, !.tail = 0, !.count = 0]

\* a space test against the whole capacity, forgetting the bytes stored
PushNoSpaceCapacity(r, len) == len > r.size

\* ringbuf_push_locked: the space test
PushNoSpace(r, len) == len > SizeT(r.size - r.count)

\* a copy loop that forgets to advance rb.tail
PushByteNoAdvance(r, b) == [r EXCEPT !.buf[r.tail + 1] = b]

\* ringbuf_push_locked: one pass of the copy loop
PushByte(r, b) ==
    [r EXCEPT !.buf[r.tail + 1] = b, !.tail = (r.tail + 1) % r.size]

RECURSIVE PushLoop(_, _, _)
PushLoop(r, kdata, i) ==
    IF i > Len(kdata) THEN r ELSE PushLoop(PushByte(r, kdata[i]), kdata, i + 1)

\* a push that counts one byte whatever it stored
PushCountOne(r, len) == [r EXCEPT !.count = SizeT(r.count + 1)]

\* ringbuf_push_locked: rb.count += len
PushCount(r, len) == [r EXCEPT !.count = SizeT(r.count + len)]

\* ringbuf_push_locked, whole: the new rb and the return value
RingbufPushLocked(r, kdata) ==
    IF PushNoSpace(r, Len(kdata))
    THEN [rb |-> r, ret |-> -ENOSPC]
    ELSE [rb |-> PushCount(PushLoop(r, kdata, 1), Len(kdata)), ret |-> Len(kdata)]

\* a pop that forgets to cut tocopy down to rb.count
PopToCopyLen(r, len) == len

\* ringbuf_pop_locked: tocopy
PopToCopy(r, len) == IF len > r.count THEN r.count ELSE len

\* a copy loop that reads rb.buf[rb.tail] instead of rb.buf[rb.head]
PopByteOutTail(r) == r.buf[r.tail + 1]

\* ringbuf_pop_locked: one pass of the copy loop, the byte read
PopByteOut(r) == r.buf[r.head + 1]
\* a copy loop that forgets to advance rb.head
PopByteStay(r) == r

\* ringbuf_pop_locked: one pass of the copy loop, rb.head advanced
PopByte(r) == [r EXCEPT !.head = (r.head + 1) % r.size]

RECURSIVE PopLoop(_, _, _)
\* st = [rb, out]; n passes left
PopLoop(r, out, n) ==
    IF n = 0 THEN [rb |-> r, out |-> out]
    ELSE PopLoop(PopByte(r), Append(out, PopByteOut(r)), n - 1)

\* a pop that takes one byte off rb.count whatever it copied
PopCountOne(r, tocopy) == [r EXCEPT !.count = SizeT(r.count - 1)]

\* ringbuf_pop_locked: rb.count -= tocopy
PopCount(r, tocopy) == [r EXCEPT !.count = SizeT(r.count - tocopy)]

\* ringbuf_pop_locked, whole: the new rb, the bytes written to out, the return value
RingbufPopLocked(r, len) ==
    LET tocopy == PopToCopy(r, len)
        l == PopLoop(r, << >>, tocopy)
    IN [rb |-> PopCount(l.rb, tocopy), out |-> l.out, ret |-> tocopy]

\* the count bytes stored in the circular range starting at head, oldest first
Contents(r) == [k \in 1..r.count |-> r.buf[((r.head + k - 1) % r.size) + 1]]

\* kmalloc(sz): NULL, or sz bytes whose contents are whatever the memory held
Kmalloc(sz, B) == {NULL} \cup [1..sz -> B]

\* ringbuf_init on rb = r with kmalloc returning mem: the new rb, the return
\* value, and whether init_waitqueue_head and mutex_init ran
RingbufInit(r, sz, mem) ==
    IF sz = 0 THEN [rb |-> r, ret |-> -EINVAL, init |-> FALSE]
    ELSE IF mem = NULL THEN [rb |-> [r EXCEPT !.buf = NULL], ret |-> -ENOMEM, init |-> FALSE]
    ELSE [rb |-> RingbufInitRb(r, sz, mem), ret |-> 0, init |-> TRUE]

(* ------------------------------- state -------------------------------- *)
VARIABLES
    rb,       \* static struct ringbuf rb: buf, size, head, tail, count
    rq,       \* rb.rq: the callers queued on the readers' wait queue
    lock,     \* rb.lock: the caller owning the mutex, NoProc when unlocked
    inited,   \* init_waitqueue_head(&rb.rq) and mutex_init(&rb.lock) have run
    pc,       \* where each caller is in ringbuf_ioctl
    cmd,      \* the command each caller is running
    ud,       \* each caller's struct queue_data copy: length, data (and ks)
    kbuf,     \* each caller's kmalloc'd scratch buffer
    ret,      \* each caller's ret
    idx,      \* each caller's loop index i in the copy loops
    tocopy,   \* each caller's tocopy in ringbuf_pop_locked
    wint,     \* each caller's __int in wait_event_interruptible
    asleep,   \* the caller's task state is TASK_INTERRUPTIBLE
    sig,      \* a signal is pending for the caller
    last,     \* SerialSpec: the handler run that ended last
    fifo      \* SerialSpec, history: the bytes pushed into this buffer instance
              \* and not popped since, oldest first, kept as a plain queue

vars == << rb, rq, lock, inited, pc, cmd, ud, kbuf, ret, idx, tocopy, wint,
           asleep, sig, last, fifo >>

locals == << cmd, kbuf, ret, idx, tocopy, wint >>

NoUd == [length |-> 0, data |-> << >>]
NoEvent == [cmd |-> "none", length |-> 0, data |-> << >>, ret |-> 0, out |-> << >>,
            empty |-> FALSE, atcall |-> 0, echo |-> << >>, replen |-> 0, popped |-> 0]

\* module load: ringbuf_init_module registers the device and leaves rb as
\* the zero-filled static it is; no caller is inside ringbuf_ioctl
Init ==
    /\ rb = RbZero
    /\ rq = {}
    /\ lock = NoProc
    /\ inited = FALSE
    /\ pc = [p \in Procs |-> "idle"]
    /\ cmd = [p \in Procs |-> "none"]
    /\ ud = [p \in Procs |-> NoUd]
    /\ kbuf = [p \in Procs |-> << >>]
    /\ ret = [p \in Procs |-> 0]
    /\ idx = [p \in Procs |-> 0]
    /\ tocopy = [p \in Procs |-> 0]
    /\ wint = [p \in Procs |-> 0]
    /\ asleep = [p \in Procs |-> FALSE]
    /\ sig = [p \in Procs |-> FALSE]
    /\ last = NoEvent
    /\ fifo = << >>

\* the lengths and capacities a caller may pass (a signed int)
Lengths == -1..MaxLen
Caps == -1..MaxCap

\* a wake_up_interruptible that makes nobody runnable
WakeUpAsleepNone(q, a) == a

\* wake_up_interruptible(&rb.rq): every queued caller is made runnable and
\* taken off the queue (autoremove_wake_function)
WakeUpAsleep(q, a) == [p \in Procs |-> IF p \in q THEN FALSE ELSE a[p]]
WakeUpRq(q) == {}

(* ===================== SerialSpec: handlers in one step ================ *)

\* the record of the handler run that ends now: the command, its length
\* argument, the bytes it staged, its return value, the bytes it handed
\* back, whether rb.count was 0 when this step started, rb.count at the time
\* the call was made (atcall), (echo) for a pop that directly follows a
\* successful push of as many bytes into an empty buffer, the bytes of that
\* push, the length field of the caller's struct queue_data after the call
\* (replen; put_user alone changes it), and what ringbuf_pop_locked returned
\* in this run (popped; 0 when it did not run)
EventAt(c, len, data, r, out, at) ==
    [cmd |-> c, length |-> len, data |-> data, ret |-> r, out |-> out,
     empty |-> (rb.count = 0), atcall |-> at,
     echo |-> IF /\ c = "POP"
                 /\ last.cmd = "PUSH" /\ last.ret > 0 /\ last.empty
                 /\ last.length = len
              THEN last.data ELSE << >>,
     replen |-> len, popped |-> 0]

\* the same for a handler run that is called and ends in this step
Event(c, len, data, r, out) == EventAt(c, len, data, r, out, rb.count)

SomeIdle == \E p \in Procs : pc[p] = "idle"

\* ringbuf_ioctl, case SET_SIZE_OF_QUEUE, leaving before mutex_lock:
\* copy_from_user fails (fault), or ks <= 0
SerialSetSizeRejected(ks, fault) ==
    /\ SomeIdle
    /\ fault \/ ks <= 0
    /\ last' = Event("SET_SIZE", ks, << >>, IF fault THEN -EFAULT ELSE -EINVAL, << >>)
    /\ UNCHANGED << rb, rq, lock, inited, pc, ud, locals, asleep, sig, fifo >>

\* ringbuf_ioctl, case SET_SIZE_OF_QUEUE, from mutex_lock to the return;
\* mem is what kmalloc returns
SerialSetSize(ks, mem) ==
    /\ SomeIdle
    /\ ks > 0
    /\ LET r == RingbufInit(RingbufFree(rb), ks, mem) IN
            /\ rb' = r.rb
            /\ rq' = IF r.init THEN {} ELSE rq
            /\ inited' = (inited \/ r.init)
            /\ last' = Event("SET_SIZE", ks, << >>, r.ret, << >>)
    /\ fifo' = << >>
    /\ UNCHANGED << lock, pc, ud, locals, asleep, sig >>

\* a staging that allocates kbuf before it looks at ud.length
StagingRetAllocFirst(len, fail) ==
    IF fail = "copy_ud" THEN -EFAULT
    ELSE IF fail = "kmalloc" THEN -ENOMEM
    ELSE IF len <= 0 THEN -EINVAL
    ELSE IF fail = "copy_data" THEN -EFAULT
    ELSE 0

\* the return value of a PUSH_DATA / POP_DATA call that leaves before
\* mutex_lock; fail names the staging step that fails
StagingRet(len, fail) ==
    IF fail = "copy_ud" THEN -EFAULT
    ELSE IF len <= 0 THEN -EINVAL
    ELSE IF fail = "kmalloc" THEN -ENOMEM
    ELSE IF fail = "copy_data" THEN -EFAULT
    ELSE 0

\* ringbuf_ioctl, case PUSH_DATA, leaving before mutex_lock
SerialPushRejected(len, fail) ==
    /\ SomeIdle
    /\ StagingRet(len, fail) # 0
    /\ last' = Event("PUSH", len, << >>, StagingRet(len, fail), << >>)
    /\ UNCHANGED << rb, rq, lock, inited, pc, ud, locals, asleep, sig, fifo >>

\* ringbuf_ioctl, case PUSH_DATA, from mutex_lock to the return
SerialPush(data) ==
    /\ SomeIdle
    /\ LET r == RingbufPushLocked(rb, data) IN
            /\ rb' = r.rb
            /\ rq' = IF r.ret > 0 THEN WakeUpRq(rq) ELSE rq
            /\ asleep' = IF r.ret > 0 THEN WakeUpAsleep(rq, asleep) ELSE asleep
            /\ fifo' = IF r.ret > 0 THEN fifo \o data ELSE fifo
            /\ last' = Event("PUSH", Len(data), data, r.ret, << >>)
    /\ UNCHANGED << lock, inited, pc, ud, locals, sig >>

\* POP_DATA from "data available, pop now" to the return; fail names the
\* copy back to the caller that fails
SerialPopNow(len, fail, at) ==
    LET r == RingbufPopLocked(rb, len) IN
    /\ rb' = r.rb
    /\ fifo' = SubSeq(fifo, r.ret + 1, Len(fifo))
    /\ last' = [(IF r.ret > 0 /\ fail = "copy_out"
                 THEN EventAt("POP", len, << >>, -EFAULT, << >>, at)
                 ELSE IF r.ret > 0 /\ fail = "put_user"
                 THEN EventAt("POP", len, << >>, -EFAULT, r.out, at)
                 ELSE EventAt("POP", len, << >>, r.ret, r.out, at))
                EXCEPT !.popped = r.ret,
                       !.replen = IF r.ret > 0 /\ fail = "none" THEN r.ret ELSE len]

\* ringbuf_ioctl, case POP_DATA, leaving before mutex_lock
SerialPopRejected(len, fail) ==
    /\ SomeIdle
    /\ StagingRet(len, fail) # 0
    /\ last' = Event("POP", len, << >>, StagingRet(len, fail), << >>)
    /\ UNCHANGED << rb, rq, lock, inited, pc, ud, locals, asleep, sig, fifo >>

\* ringbuf_ioctl, case POP_DATA, finding rb.count > 0 at its first test
SerialPop(len, fail) ==
    /\ SomeIdle
    /\ len > 0
    /\ rb.count > 0
    /\ SerialPopNow(len, fail, rb.count)
    /\ UNCHANGED << rq, lock, inited, pc, ud, locals, asleep, sig >>

\* ringbuf_ioctl, case POP_DATA, finding rb.count = 0: the caller goes to
\* sleep in wait_event_interruptible.  On a wait queue head that was never
\* initialised the list insertion either faults the caller (queued = FALSE)
\* or is skipped, leaving it asleep off the queue.
SerialPopSleep(p, len, queued) ==
    /\ pc[p] = "idle"
    /\ len > 0
    /\ rb.count = 0
    /\ last' = Event("POP_SLEEP", len, << >>, 0, << >>)
    /\ ud' = [ud EXCEPT ![p] = [length |-> len, data |-> << >>]]
    /\ IF inited THEN
            /\ queued
            /\ rq' = rq \cup {p}
            /\ pc' = [pc EXCEPT ![p] = "sleep"]
            /\ asleep' = [asleep EXCEPT ![p] = TRUE]
       ELSE /\ rq' = rq
            /\ pc' = [pc EXCEPT ![p] = IF queued THEN "sleep" ELSE "oops"]
            /\ asleep' = [asleep EXCEPT ![p] = queued]
    /\ UNCHANGED << rb, lock, inited, locals, sig, fifo >>

\* a sleeping POP_DATA caller made runnable by wake_up_interruptible goes
\* round the for (;;) loop again (it went to sleep because rb.count was 0
\* when it was called)
SerialPopResume(p, fail) ==
    /\ pc[p] = "sleep"
    /\ ~asleep[p]
    /\ IF rb.count > 0 THEN
            /\ SerialPopNow(ud[p].length, fail, 0)
            /\ pc' = [pc EXCEPT ![p] = "idle"]
            /\ ud' = [ud EXCEPT ![p] = NoUd]
            /\ UNCHANGED << rq, asleep >>
       ELSE /\ last' = EventAt("POP_SLEEP", ud[p].length, << >>, 0, << >>, 0)
            /\ rq' = rq \cup {p}
            /\ asleep' = [asleep EXCEPT ![p] = TRUE]
            /\ UNCHANGED << rb, pc, ud, fifo >>
    /\ UNCHANGED << lock, inited, locals, sig >>

\* a signal reaches a sleeping POP_DATA caller: prepare_to_wait_event takes
\* it off the queue, the condition is tested, and wait_event_interruptible
\* returns -ERESTARTSYS unless rb.count > 0 by now
SerialInterrupt(p, fail) ==
    /\ pc[p] = "sleep"
    /\ asleep[p]
    /\ rq' = rq \ {p}
    /\ asleep' = [asleep EXCEPT ![p] = FALSE]
    /\ pc' = [pc EXCEPT ![p] = "idle"]
    /\ ud' = [ud EXCEPT ![p] = NoUd]
    /\ IF rb.count > 0 THEN SerialPopNow(ud[p].length, fail, 0)
       ELSE /\ fail = "none"
            /\ last' = EventAt("POP", ud[p].length, << >>, -ERESTARTSYS, << >>, 0)
            /\ UNCHANGED << rb, fifo >>
    /\ UNCHANGED << lock, inited, locals, sig >>

\* ringbuf_ioctl, default case: cmd is none of the three commands
SerialUnknown ==
    /\ SomeIdle
    /\ last' = Event("UNKNOWN", 0, << >>, -EINVAL, << >>)
    /\ UNCHANGED << rb, rq, lock, inited, pc, ud, locals, asleep, sig, fifo >>

StagingFails == {"none", "copy_ud", "kmalloc", "copy_data"}
CopyBackFails == {"none", "copy_out", "put_user"}

SerialNext ==
    \/ \E ks \in Caps, fault \in BOOLEAN : SerialSetSizeRejected(ks, fault)
    \/ \E ks \in 1..MaxCap : \E mem \in Kmalloc(ks, Bytes) : SerialSetSize(ks, mem)
    \/ \E len \in Lengths, fail \in StagingFails : SerialPushRejected(len, fail)
    \/ \E data \in Datas : SerialPush(data)
    \/ \E len \in Lengths, fail \in StagingFails : SerialPopRejected(len, fail)
    \/ \E len \in 1..MaxLen, fail \in CopyBackFails : SerialPop(len, fail)
    \/ \E p \in Procs, len \in 1..MaxLen, queued \in BOOLEAN : SerialPopSleep(p, len, queued)
    \/ \E p \in Procs, fail \in CopyBackFails : SerialPopResume(p, fail)
    \/ \E p \in Procs, fail \in CopyBackFails : SerialInterrupt(p, fail)
    \/ SerialUnknown

SerialSpec == Init /\ [][SerialNext]_vars

(* =============== Spec: the handlers, statement by statement ============ *)

\* mutex_lock(&rb.lock): taken when no caller owns it, else the caller waits
MutexLockOwner(p) == p
\* mutex_unlock(&rb.lock): the owner field is cleared, whoever it names
MutexUnlockOwner(p) == NoProc

\* a POP_DATA that reports an interrupted wait as "0 bytes"
InterruptedRetZero(p) == 0

\* POP_DATA: what it returns when wait_event_interruptible was interrupted
InterruptedRet(p) == -ERESTARTSYS

\* the positions at which a caller is about to call mutex_lock
LockPcs == {"ss_lock", "push_lock", "pop_lock"}

\* New calls are followed as long as rb.count has not left 0..rb.size; once
\* it has, the calls in flight run on but no further call is started (the
\* count could otherwise drift without bound).
Sane == rb.count <= rb.size

\* f with the entry of every caller in F set to v
Clear(f, F, v) == [q \in Procs |-> IF q \in F THEN v ELSE f[q]]

\* the caller returns from ringbuf_ioctl with value r; kbuf is freed
Leave(p, r) ==
    /\ pc' = [pc EXCEPT ![p] = "done"]
    /\ ret' = [ret EXCEPT ![p] = r]
    /\ kbuf' = [kbuf EXCEPT ![p] = << >>]
    /\ idx' = [idx EXCEPT ![p] = 0]
    /\ tocopy' = [tocopy EXCEPT ![p] = 0]
    /\ wint' = [wint EXCEPT ![p] = 0]

\* a call that leaves before mutex_lock: nothing but the return value is kept
Reject(p, c, r) ==
    /\ pc' = [pc EXCEPT ![p] = "done"]
    /\ cmd' = [cmd EXCEPT ![p] = c]
    /\ ret' = [ret EXCEPT ![p] = r]
    /\ UNCHANGED << ud, kbuf, idx, tocopy, wint >>

\* the callers in F fault in the kernel or are stuck for good (where): they
\* run no further and their locals are of no more use
Gone(F, where) ==
    /\ pc' = Clear(pc, F, where)
    /\ cmd' = Clear(cmd, F, "none")
    /\ ud' = Clear(ud, F, NoUd)
    /\ kbuf' = Clear(kbuf, F, << >>)
    /\ ret' = Clear(ret, F, 0)
    /\ idx' = Clear(idx, F, 0)
    /\ tocopy' = Clear(tocopy, F, 0)
    /\ wint' = Clear(wint, F, 0)

\* ringbuf_ioctl entered with cmd = SET_SIZE_OF_QUEUE, up to mutex_lock
CallSetSize(p, ks, fault) ==
    /\ pc[p] = "idle"
    /\ Sane
    /\ IF fault THEN Reject(p, "SET_SIZE", -EFAULT)
       ELSE IF ks <= 0 THEN Reject(p, "SET_SIZE", -EINVAL)
       ELSE /\ pc' = [pc EXCEPT ![p] = "ss_lock"]
            /\ cmd' = [cmd EXCEPT ![p] = "SET_SIZE"]
            /\ ud' = [ud EXCEPT ![p] = [length |-> ks, data |-> << >>]]
            /\ UNCHANGED << ret, kbuf, idx, tocopy, wint >>
    /\ UNCHANGED << rb, rq, lock, inited, asleep, sig, last, fifo >>

\* ringbuf_ioctl entered with cmd = PUSH_DATA, up to mutex_lock
CallPush(p, len, data, fail) ==
    /\ pc[p] = "idle"
    /\ Sane
    /\ IF StagingRet(len, fail) # 0 THEN Reject(p, "PUSH", StagingRet(len, fail))
       ELSE /\ pc' = [pc EXCEPT ![p] = "push_lock"]
            /\ cmd' = [cmd EXCEPT ![p] = "PUSH"]
            /\ ud' = [ud EXCEPT ![p] = [length |-> len, data |-> data]]
            /\ kbuf' = [kbuf EXCEPT ![p] = data]
            /\ UNCHANGED << ret, idx, tocopy, wint >>
    /\ UNCHANGED << rb, rq, lock, inited, asleep, sig, last, fifo >>

\* ringbuf_ioctl entered with cmd = POP_DATA, up to the for (;;) loop
CallPop(p, len, fail) ==
    /\ pc[p] = "idle"
    /\ Sane
    /\ fail # "copy_data"
    /\ IF StagingRet(len, fail) # 0 THEN Reject(p, "POP", StagingRet(len, fail))
       ELSE /\ pc' = [pc EXCEPT ![p] = "pop_lock"]
            /\ cmd' = [cmd EXCEPT ![p] = "POP"]
            /\ ud' = [ud EXCEPT ![p] = [length |-> len, data |-> << >>]]
            /\ UNCHANGED << ret, kbuf, idx, tocopy, wint >>
    /\ UNCHANGED << rb, rq, lock, inited, asleep, sig, last, fifo >>

\* mutex_lock(&rb.lock) in any of the three cases
MutexLock(p) ==
    /\ pc[p] \in LockPcs
    /\ lock = NoProc
    /\ lock' = MutexLockOwner(p)
    /\ pc' = [pc EXCEPT ![p] = CASE pc[p] = "ss_lock" -> "ss_free"
                                 [] pc[p] = "push_lock" -> "push_check"
                                 [] pc[p] = "pop_lock" -> "pop_check"]
    /\ UNCHANGED << rb, rq, inited, ud, locals, asleep, sig, last, fifo >>

\* mutex_lock(&rb.lock) finding the mutex owned before mutex_init ever ran:
\* the caller queues itself on a zero-filled wait list and faults
MutexLockFault(p) ==
    /\ pc[p] \in LockPcs
    /\ lock # NoProc
    /\ ~inited
    /\ Gone({p}, "oops")
    /\ UNCHANGED << rb, rq, lock, inited, asleep, sig, last, fifo >>

\* SET_SIZE_OF_QUEUE: ringbuf_free()
SetSizeFree(p) ==
    /\ pc[p] = "ss_free"
    /\ rb' = RingbufFree(rb)
    /\ pc' = [pc EXCEPT ![p] = "ss_init"]
    /\ UNCHANGED << rq, lock, inited, ud, locals, asleep, sig, last, fifo >>

\* SET_SIZE_OF_QUEUE: ret = ringbuf_init((size_t)ks), kmalloc failing
SetSizeInitFails(p) ==
    /\ pc[p] = "ss_init"
    /\ LET r == RingbufInit(rb, ud[p].length, NULL) IN
            /\ rb' = r.rb
            /\ ret' = [ret EXCEPT ![p] = r.ret]
    /\ pc' = [pc EXCEPT ![p] = "ss_unlock"]
    /\ UNCHANGED << rq, lock, inited, ud, cmd, kbuf, idx, tocopy, wint, asleep, sig, last, fifo >>

\* the callers that may be waiting inside mutex_lock
MutexWaiters == {q \in Procs : pc[q] \in LockPcs /\ lock # NoProc}

\* SET_SIZE_OF_QUEUE: ret = ringbuf_init((size_t)ks), kmalloc returning mem.
\* init_waitqueue_head empties rb.rq; mutex_init leaves rb.lock unowned with
\* an empty wait list, so each caller in forgotten, which was waiting in
\* mutex_lock, is never handed the mutex.
SetSizeInit(p, mem, forgotten) ==
    /\ pc[p] = "ss_init"
    /\ mem # NULL
    /\ forgotten \subseteq MutexWaiters
    /\ LET r == RingbufInit(rb, ud[p].length, mem) IN
            /\ rb' = r.rb
            /\ rq' = IF r.init THEN {} ELSE rq
            /\ lock' = IF r.init THEN NoProc ELSE lock
            /\ inited' = (inited \/ r.init)
            /\ pc' = [Clear(pc, forgotten, "hung") EXCEPT ![p] = "ss_unlock"]
            /\ ret' = [Clear(ret, forgotten, 0) EXCEPT ![p] = r.ret]
    /\ cmd' = Clear(cmd, forgotten, "none")
    /\ ud' = Clear(ud, forgotten, NoUd)
    /\ kbuf' = Clear(kbuf, forgotten, << >>)
    /\ UNCHANGED << idx, tocopy, wint, asleep, sig, last, fifo >>

\* mutex_unlock(&rb.lock) in SET_SIZE_OF_QUEUE, and the return
SetSizeUnlock(p) ==
    /\ pc[p] = "ss_unlock"
    /\ lock' = MutexUnlockOwner(p)
    /\ pc' = [pc EXCEPT ![p] = "done"]
    /\ UNCHANGED << rb, rq, inited, ud, locals, asleep, sig, last, fifo >>

\* a copy loop touching rb.buf[...] or taking % rb.size with no buffer
NoBuffer(r) == r.buf = NULL \/ r.size = 0

\* ringbuf_push_locked: if (len > rb.size - rb.count) return -ENOSPC
PushCheck(p) ==
    /\ pc[p] = "push_check"
    /\ IF PushNoSpace(rb, ud[p].length)
       THEN /\ ret' = [ret EXCEPT ![p] = -ENOSPC]
            /\ pc' = [pc EXCEPT ![p] = "push_unlock"]
       ELSE /\ pc' = [pc EXCEPT ![p] = "push_loop"]
            /\ UNCHANGED ret
    /\ UNCHANGED << rb, rq, lock, inited, ud, cmd, kbuf, idx, tocopy, wint, asleep, sig, last, fifo >>

\* ringbuf_push_locked: one pass of for (i = 0; i < len; ++i)
PushLoopStep(p) ==
    /\ pc[p] = "push_loop"
    /\ IF NoBuffer(rb)
       THEN /\ Gone({p}, "oops")
            /\ UNCHANGED rb
       ELSE /\ rb' = PushByte(rb, kbuf[p][idx[p] + 1])
            /\ idx' = [idx EXCEPT ![p] = idx[p] + 1]
            /\ pc' = [pc EXCEPT ![p] = IF idx[p] + 1 < ud[p].length
                                       THEN "push_loop" ELSE "push_count"]
            /\ UNCHANGED << ud, cmd, kbuf, ret, tocopy, wint >>
    /\ UNCHANGED << rq, lock, inited, asleep, sig, last, fifo >>

\* ringbuf_push_locked: rb.count += len; return len
PushCountStep(p) ==
    /\ pc[p] = "push_count"
    /\ rb' = PushCount(rb, ud[p].length)
    /\ ret' = [ret EXCEPT ![p] = ud[p].length]
    /\ idx' = [idx EXCEPT ![p] = 0]
    /\ pc' = [pc EXCEPT ![p] = "push_unlock"]
    /\ UNCHANGED << rq, lock, inited, ud, cmd, kbuf, tocopy, wint, asleep, sig, last, fifo >>

\* PUSH_DATA: mutex_unlock(&rb.lock); kfree(kbuf); then the test of ret
PushUnlock(p) ==
    /\ pc[p] = "push_unlock"
    /\ lock' = MutexUnlockOwner(p)
    /\ kbuf' = [kbuf EXCEPT ![p] = << >>]
    /\ pc' = [pc EXCEPT ![p] = IF ret[p] > 0 THEN "push_wake" ELSE "done"]
    /\ UNCHANGED << rb, rq, inited, ud, cmd, ret, idx, tocopy, wint, asleep, sig, last, fifo >>

\* PUSH_DATA: wake_up_interruptible(&rb.rq); return ret
PushWake(p) ==
    /\ pc[p] = "push_wake"
    /\ rq' = WakeUpRq(rq)
    /\ asleep' = WakeUpAsleep(rq, asleep)
    /\ pc' = [pc EXCEPT ![p] = "done"]
    /\ UNCHANGED << rb, lock, inited, ud, locals, sig, last, fifo >>

\* POP_DATA: if (rb.count > 0) under the mutex
PopCheck(p) ==
    /\ pc[p] = "pop_check"
    /\ pc' = [pc EXCEPT ![p] = IF rb.count > 0 THEN "pop_tocopy" ELSE "pop_unlock_empty"]
    /\ UNCHANGED << rb, rq, lock, inited, ud, locals, asleep, sig, last, fifo >>

\* ringbuf_pop_locked: tocopy = len, cut down to rb.count
PopToCopyStep(p) ==
    /\ pc[p] = "pop_tocopy"
    /\ tocopy' = [tocopy EXCEPT ![p] = PopToCopy(rb, ud[p].length)]
    /\ pc' = [pc EXCEPT ![p] = IF PopToCopy(rb, ud[p].length) > 0
                               THEN "pop_loop" ELSE "pop_count"]
    /\ UNCHANGED << rb, rq, lock, inited, ud, cmd, kbuf, ret, idx, wint,
                    asleep, sig, last, fifo >>

\* ringbuf_pop_locked: one pass of for (i = 0; i < tocopy; ++i)
PopLoopStep(p) ==
    /\ pc[p] = "pop_loop"
    /\ IF NoBuffer(rb)
       THEN /\ Gone({p}, "oops")
            /\ UNCHANGED rb
       ELSE /\ kbuf' = [kbuf EXCEPT ![p] = Append(kbuf[p], PopByteOut(rb))]
            /\ rb' = PopByte(rb)
            /\ idx' = [idx EXCEPT ![p] = idx[p] + 1]
            /\ pc' = [pc EXCEPT ![p] = IF idx[p] + 1 < tocopy[p]
                                       THEN "pop_loop" ELSE "pop_count"]
            /\ UNCHANGED << ud, cmd, ret, tocopy, wint >>
    /\ UNCHANGED << rq, lock, inited, asleep, sig, last, fifo >>

\* ringbuf_pop_locked: rb.count -= tocopy; return tocopy
PopCountStep(p) ==
    /\ pc[p] = "pop_count"
    /\ rb' = PopCount(rb, tocopy[p])
    /\ ret' = [ret EXCEPT ![p] = tocopy[p]]
    /\ idx' = [idx EXCEPT ![p] = 0]
    /\ pc' = [pc EXCEPT ![p] = "pop_unlock"]
    /\ UNCHANGED << rq, lock, inited, ud, cmd, kbuf, tocopy, wint, asleep, sig, last, fifo >>

\* POP_DATA: mutex_unlock after the pop, then the copy back to the caller
\* (copy_to_user, put_user; fail names the one that fails) and the return
PopUnlock(p, fail) ==
    /\ pc[p] = "pop_unlock"
    /\ lock' = MutexUnlockOwner(p)
    /\ Leave(p, IF ret[p] > 0 /\ fail # "none" THEN -EFAULT ELSE ret[p])
    /\ UNCHANGED << rb, rq, inited, ud, cmd, asleep, sig, last, fifo >>

\* POP_DATA: mutex_unlock on the empty branch
PopUnlockEmpty(p) ==
    /\ pc[p] = "pop_unlock_empty"
    /\ lock' = MutexUnlockOwner(p)
    /\ pc' = [pc EXCEPT ![p] = "wait_cond"]
    /\ UNCHANGED << rb, rq, inited, ud, locals, asleep, sig, last, fifo >>

\* wait_event_interruptible: the first test of rb.count > 0
WaitCond(p) ==
    /\ pc[p] = "wait_cond"
    /\ pc' = [pc EXCEPT ![p] = IF rb.count > 0 THEN "pop_lock" ELSE "wait_prepare"]
    /\ UNCHANGED << rb, rq, lock, inited, ud, locals, asleep, sig, last, fifo >>

\* wait_event_interruptible: prepare_to_wait_event.  With a signal pending
\* the caller is taken off the queue and __int = -ERESTARTSYS; otherwise it
\* is queued and its state set to TASK_INTERRUPTIBLE.  On a wait queue head
\* that was never initialised the list insertion either faults the caller
\* (queued = FALSE) or is skipped.
WaitPrepare(p, queued) ==
    /\ pc[p] = "wait_prepare"
    /\ IF sig[p] THEN
            /\ queued
            /\ rq' = rq \ {p}
            /\ wint' = [wint EXCEPT ![p] = -ERESTARTSYS]
            /\ pc' = [pc EXCEPT ![p] = "wait_recheck"]
            /\ UNCHANGED << asleep, ud, cmd, kbuf, ret, idx, tocopy >>
       ELSE IF inited THEN
            /\ queued
            /\ rq' = rq \cup {p}
            /\ asleep' = [asleep EXCEPT ![p] = TRUE]
            /\ pc' = [pc EXCEPT ![p] = "wait_recheck"]
            /\ UNCHANGED << ud, locals >>
       ELSE IF queued THEN
            /\ asleep' = [asleep EXCEPT ![p] = TRUE]
            /\ pc' = [pc EXCEPT ![p] = "wait_recheck"]
            /\ UNCHANGED << rq, ud, locals >>
       ELSE /\ Gone({p}, "oops")
            /\ UNCHANGED << rq, asleep >>
    /\ UNCHANGED << rb, lock, inited, sig, last, fifo >>

\* wait_event_interruptible: the test of rb.count > 0 after queueing, then
\* the test of __int; POP_DATA returns -ERESTARTSYS when the wait was
\* interrupted
WaitRecheck(p) ==
    /\ pc[p] = "wait_recheck"
    /\ IF rb.count > 0 THEN
            /\ rq' = rq \ {p}
            /\ asleep' = [asleep EXCEPT ![p] = FALSE]
            /\ pc' = [pc EXCEPT ![p] = "pop_lock"]
            /\ wint' = [wint EXCEPT ![p] = 0]
            /\ UNCHANGED << ret, kbuf, idx, tocopy >>
       ELSE IF wint[p] # 0 THEN
            /\ Leave(p, InterruptedRet(p))
            /\ UNCHANGED << rq, asleep >>
       ELSE /\ pc' = [pc EXCEPT ![p] = "wait_sched"]
            /\ UNCHANGED << rq, asleep, ret, kbuf, idx, tocopy, wint >>
    /\ UNCHANGED << rb, lock, inited, ud, cmd, sig, last, fifo >>

\* wait_event_interruptible: schedule() returns once the caller is runnable
WaitSchedule(p) ==
    /\ pc[p] = "wait_sched"
    /\ ~asleep[p]
    /\ pc' = [pc EXCEPT ![p] = "wait_prepare"]
    /\ UNCHANGED << rb, rq, lock, inited, ud, locals, asleep, sig, last, fifo >>

\* a signal is sent to a caller that is inside schedule(): it becomes
\* pending and the caller runnable
Signal(p) ==
    /\ pc[p] = "wait_sched"
    /\ ~sig[p]
    /\ sig' = [sig EXCEPT ![p] = TRUE]
    /\ asleep' = [asleep EXCEPT ![p] = FALSE]
    /\ UNCHANGED << rb, rq, lock, inited, pc, ud, locals, last, fifo >>

\* back in user space: the result is consumed, a pending signal handled
Return(p) ==
    /\ pc[p] = "done"
    /\ pc' = [pc EXCEPT ![p] = "idle"]
    /\ cmd' = [cmd EXCEPT ![p] = "none"]
    /\ ud' = [ud EXCEPT ![p] = NoUd]
    /\ ret' = [ret EXCEPT ![p] = 0]
    /\ sig' = [sig EXCEPT ![p] = FALSE]
    /\ UNCHANGED << rb, rq, lock, inited, kbuf, idx, tocopy, wint, asleep, last, fifo >>

\* the steps a caller takes by itself once inside ringbuf_ioctl
Step(p) ==
    \/ MutexLock(p)
    \/ MutexLockFault(p)
    \/ SetSizeFree(p)
    \/ SetSizeInitFails(p)
    \/ \E mem \in Kmalloc(ud[p].length, StepBytes), forgotten \in SUBSET (Procs \ {p}) :
          SetSizeInit(p, mem, forgotten)
    \/ SetSizeUnlock(p)
    \/ PushCheck(p)
    \/ PushLoopStep(p)
    \/ PushCountStep(p)
    \/ PushUnlock(p)
    \/ PushWake(p)
    \/ PopCheck(p)
    \/ PopToCopyStep(p)
    \/ PopLoopStep(p)
    \/ PopCountStep(p)
    \/ \E fail \in CopyBackFails : PopUnlock(p, fail)
    \/ PopUnlockEmpty(p)
    \/ WaitCond(p)
    \/ \E queued \in BOOLEAN : WaitPrepare(p, queued)
    \/ WaitRecheck(p)
    \/ WaitSchedule(p)

\* what the callers' user space and the signal senders do
Env(p) ==
    \/ \E ks \in Caps, fault \in BOOLEAN : CallSetSize(p, ks, fault)
    \/ \E len \in Lengths, fail \in StagingFails :
          \E data \in (IF len > 0 THEN DataOfLen(len, StepBytes) ELSE {<< >>}) :
              CallPush(p, len, data, fail)
    \/ \E len \in Lengths, fail \in StagingFails : CallPop(p, len, fail)
    \/ Signal(p)
    \/ Return(p)

Next == \E p \in Procs : Step(p) \/ Env(p)

Spec == Init /\ [][Next]_vars

\* Spec under the scheduling the kernel gives: a caller that can take a
\* step inside ringbuf_ioctl is eventually run, and a caller waiting for
\* the mutex gets it if it is free again and again.  User space is not
\* obliged to make calls, and nobody is obliged to send signals.
FairSpec ==
    /\ Spec
    /\ \A p \in Procs : WF_vars(Step(p)) /\ SF_vars(MutexLock(p))

\* the positions of a caller between mutex_lock and mutex_unlock
LockedPcs == {"ss_free", "ss_init", "ss_unlock",
              "push_check", "push_loop", "push_count", "push_unlock",
              "pop_check", "pop_tocopy", "pop_loop", "pop_count", "pop_unlock",
              "pop_unlock_empty"}

\* no caller is between mutex_lock and mutex_unlock
Quiescent == \A p \in Procs : pc[p] \notin LockedPcs

(* ============ FixedSpec: one buffer instance, no resize, no signal ====== *)

\* the state after module load and one SET_SIZE_OF_QUEUE(c) that succeeded:
\* an empty buffer of c bytes, mutex and wait queue initialised, every
\* caller back in user space
FixedInit ==
    /\ \E c \in 1..MaxCap : \E mem \in [1..c -> StepBytes] :
            rb = RingbufInit(RingbufFree(RbZero), c, mem).rb
    /\ rq = {}
    /\ lock = NoProc
    /\ inited = TRUE
    /\ pc = [p \in Procs |-> "idle"]
    /\ cmd = [p \in Procs |-> "none"]
    /\ ud = [p \in Procs |-> NoUd]
    /\ kbuf = [p \in Procs |-> << >>]
    /\ ret = [p \in Procs |-> 0]
    /\ idx = [p \in Procs |-> 0]
    /\ tocopy = [p \in Procs |-> 0]
    /\ wint = [p \in Procs |-> 0]
    /\ asleep = [p \in Procs |-> FALSE]
    /\ sig = [p \in Procs |-> FALSE]
    /\ last = NoEvent
    /\ fifo = << >>

\* the steps a caller takes by itself inside PUSH_DATA and POP_DATA
FixedStep(p) ==
    \/ MutexLock(p)
    \/ PushCheck(p)
    \/ PushLoopStep(p)
    \/ PushCountStep(p)
    \/ PushUnlock(p)
    \/ PushWake(p)
    \/ PopCheck(p)
    \/ PopToCopyStep(p)
    \/ PopLoopStep(p)
    \/ PopCountStep(p)
    \/ \E fail \in CopyBackFails : PopUnlock(p, fail)
    \/ PopUnlockEmpty(p)
    \/ WaitCond(p)
    \/ \E queued \in BOOLEAN : WaitPrepare(p, queued)
    \/ WaitRecheck(p)
    \/ WaitSchedule(p)

\* user space calling PUSH_DATA and POP_DATA only, and no signal sent
FixedEnv(p) ==
    \/ \E len \in Lengths, fail \in StagingFails :
          \E data \in (IF len > 0 THEN DataOfLen(len, StepBytes) ELSE {<< >>}) :
              CallPush(p, len, data, fail)
    \/ \E len \in Lengths, fail \in StagingFails : CallPop(p, len, fail)
    \/ Return(p)

FixedNext == \E p \in Procs : FixedStep(p) \/ FixedEnv(p)

\* scheduling as in FairSpec
FixedSpec ==
    /\ FixedInit
    /\ [][FixedNext]_vars
    /\ \A p \in Procs : WF_vars(FixedStep(p)) /\ SF_vars(MutexLock(p))

(* ======================= claims under SerialSpec ======================= *)

\* the handler run recorded in last reached ringbuf_push_locked
PushRan(e) == e.cmd = "PUSH" /\ e.data # << >>

\* C1 (round trip): a Push of X, 1 <= len(X) <= capacity, into an empty
\* buffer returns len(X), and the Pop(len(X)) that directly follows it and
\* copies back without a fault returns len(X) bytes that are exactly X, in
\* order.
RoundTrip ==
    /\ (PushRan(last) /\ last.empty /\ last.length <= rb.size)
          => last.ret = last.length
    /\ (last.cmd = "POP" /\ last.echo # << >> /\ last.ret >= 0)
          => (last.ret = last.length /\ last.out = last.echo)

RoundTripWitness ==
    /\ last.cmd = "POP"
    /\ Len(last.echo) = 2
    /\ last.echo[1] # last.echo[2]
    /\ last.out = last.echo
    /\ last.ret = 2
    /\ rb.head = 1

\* the bytes stored are the bytes pushed into this instance and not popped
FifoStored == rb.buf # NULL => Contents(rb) = fifo
\* a pop that returns bytes returns the oldest ones and leaves the rest
FifoPopStep ==
    (last'.cmd = "POP" /\ last'.ret > 0)
        => /\ last'.ret <= Len(fifo)
           /\ last'.out = SubSeq(fifo, 1, last'.ret)
           /\ Contents(rb') = SubSeq(fifo, last'.ret + 1, Len(fifo))

\* C2 (FIFO across wraparound): on one buffer instance the stored bytes are
\* always the pushed bytes not yet popped, oldest first, and every pop that
\* returns bytes returns the oldest ones in push order, also when head or
\* tail wrapped past the end of storage.
FifoOrder == [](FifoStored) /\ [][FifoPopStep]_vars

\* a pop of two bytes whose first byte sat in the last cell of storage and
\* whose second sat in cell 0
FifoOrderWitness ==
    /\ last.cmd = "POP"
    /\ last.ret = 2
    /\ last.out[1] # last.out[2]
    /\ rb.size = 2
    /\ rb.head = 1

\* C6 (pop bound), as claimed: a Pop(maxLen) never returns more than
\* min(maxLen, rb.count at the time the Pop was called).
PopBoundAtCall ==
    (last.cmd = "POP" /\ last.ret > 0)
        => last.ret <= Min(last.length, last.atcall)

\* the step in which a POP_DATA returns bytes
PopBoundStep ==
    (last'.cmd = "POP" /\ last'.ret > 0)
        => /\ last'.ret <= Min(last'.length, rb.count)
           /\ Len(last'.out) = last'.ret

\* C6, amended: a Pop(maxLen) never returns more than min(maxLen, rb.count
\* at the time its ringbuf_pop_locked runs), and hands back as many bytes
\* as it returns.
PopBound == [][PopBoundStep]_vars

\* a Pop(2) called on an empty buffer slept and returned the one byte
\* pushed meanwhile
PopBoundWitness ==
    /\ last.cmd = "POP"
    /\ last.atcall = 0
    /\ last.length = 2
    /\ last.ret = 1
    /\ Len(last.out) = 1

\* the step of a PUSH_DATA that finds too little room
PushNoSpaceStep ==
    (PushRan(last') /\ last'.length > rb.size - rb.count)
        => /\ last'.ret = -ENOSPC
           /\ rb' = rb
           /\ rq' = rq
           /\ asleep' = asleep

\* C4 (push is all-or-nothing): a Push with len(data) > capacity - count
\* returns -ENOSPC, leaves rb (head, tail, count, every byte) as it was and
\* wakes no waiter.
PushAllOrNothing == [][PushNoSpaceStep]_vars

\* a push longer than the whole capacity failed while a Pop caller sleeps
PushAllOrNothingWitness ==
    /\ PushRan(last)
    /\ last.ret = -ENOSPC
    /\ last.length > rb.size
    /\ rb.size > 0
    /\ \E p \in Procs : p \in rq /\ asleep[p]

\* the step of a PUSH_DATA that finds room
PushFitsStep ==
    (PushRan(last') /\ last'.length <= rb.size - rb.count)
        => /\ last'.ret = last'.length
           /\ rb'.count = rb.count + last'.length
           /\ rb'.tail = (rb.tail + last'.length) % rb.size
           /\ rb'.head = rb.head
           /\ rb'.size = rb.size

\* C5 (successful push): a Push of len <= capacity - count bytes returns
\* len, adds len to count, moves tail to (tail + len) mod capacity and
\* leaves head and capacity alone.
PushSucceeds == [][PushFitsStep]_vars

\* a push of two bytes that filled a buffer of capacity 2 whose tail was 1
PushSucceedsWitness ==
    /\ PushRan(last)
    /\ last.ret = 2
    /\ rb.size = 2
    /\ rb.tail = 1
    /\ rb.count = 2

\* the step of a SET_SIZE_OF_QUEUE that succeeds, the POP_DATA step that
\* directly follows one, and any POP_DATA step that returns bytes (fifo
\* holds only bytes pushed since the last SET_SIZE_OF_QUEUE)
ResizeStep ==
    /\ (last'.cmd = "SET_SIZE" /\ last'.ret = 0)
          => /\ rb'.count = 0 /\ rb'.head = 0 /\ rb'.tail = 0
             /\ rb'.size = last'.length
             /\ Len(rb'.buf) = last'.length
             /\ Contents(rb') = << >>
    /\ (last.cmd = "SET_SIZE" /\ last.ret = 0 /\ last'.cmd \in {"POP", "POP_SLEEP"})
          => (last'.ret <= 0 /\ last'.out = << >> /\ rb' = rb)
    /\ (last'.cmd = "POP" /\ last'.ret > 0)
          => last'.out = SubSeq(fifo, 1, last'.ret)

\* C7 (resize reset): a SetSize(c), c > 0, that returns 0 leaves count = 0,
\* head = tail = 0, capacity = c and no stored byte, whatever rb was before;
\* a Pop that directly follows it returns no byte and removes none, and
\* every later Pop returns only bytes pushed after the resize.
ResizeReset == [][ResizeStep]_vars

\* a resize that succeeded on a buffer that held bytes
ResizeResetWitness ==
    /\ last.cmd = "SET_SIZE"
    /\ last.ret = 0
    /\ ~last.empty
    /\ rb.size = 1
    /\ rb.count = 0

\* the step of a call whose argument was read and is not positive
NonPositiveStep ==
    (/\ last'.cmd \in {"SET_SIZE", "PUSH", "POP"}
     /\ last'.length <= 0
     /\ last'.ret # -EFAULT)
        => /\ last'.ret = -EINVAL
           /\ rb' = rb
           /\ fifo' = fifo
           /\ rq' = rq
           /\ asleep' = asleep
           /\ pc' = pc

\* C11 (non-positive arguments): a SET_SIZE_OF_QUEUE with ks <= 0, a
\* PUSH_DATA or a POP_DATA with ud.length <= 0, its argument copied in
\* without a fault, returns -EINVAL, leaves rb and its bytes as they were,
\* and puts no caller to sleep.
NonPositiveRejected == [][NonPositiveStep]_vars

\* a SET_SIZE_OF_QUEUE(0) was rejected on a full buffer of two bytes
NonPositiveRejectedWitness ==
    /\ last.cmd = "SET_SIZE"
    /\ last.length = 0
    /\ last.ret = -EINVAL
    /\ rb.size = 2
    /\ rb.count = 2

\* C12 (unknown opcode): a request whose opcode is none of the three
\* commands fails with an error that is not the one given for a non-positive
\* argument (-EINVAL).
UnknownOpcodeUnsupported ==
    last.cmd = "UNKNOWN" => (last.ret < 0 /\ last.ret # -EINVAL)

\* the step in which a POP_DATA returns without an error
PopResultStep ==
    (last'.cmd = "POP" /\ last'.ret >= 0)
        => LET n == Min(last'.length, rb.count) IN
           /\ rb.count > 0
           /\ last'.ret = n
           /\ 1 <= n /\ n <= last'.length
           /\ Len(last'.out) = n
           /\ last'.replen = n
           /\ rb'.head = (rb.head + n) % rb.size
           /\ rb'.count = rb.count - n
           /\ rb'.tail = rb.tail
           /\ rb'.size = rb.size

\* C13 (pop result): a POP_DATA(maxLen) that returns without an error found
\* rb.count > 0 and returns n = min(maxLen, rb.count) >= 1 bytes, moves head
\* to (head + n) mod size, takes n off count, leaves tail and size alone and
\* writes n into the caller's length field.
PopResult == [][PopResultStep]_vars

\* a Pop(2) returned the one byte stored, from the last cell of a buffer of
\* capacity 2: head wrapped to 0
PopResultWitness ==
    /\ last.cmd = "POP"
    /\ last.length = 2
    /\ last.ret = 1
    /\ last.replen = 1
    /\ rb.size = 2
    /\ rb.head = 0
    /\ rb.count = 0

\* the steps around a SET_SIZE_OF_QUEUE whose kmalloc fails: the resize
\* itself, a PUSH_DATA and a POP_DATA on the buffer it leaves, and the step
\* that ends that state
FailedResizeStep ==
    /\ (last'.cmd = "SET_SIZE" /\ last'.ret = -ENOMEM)
          => (rb' = RbZero /\ fifo' = << >>)
    /\ (rb.buf = NULL /\ PushRan(last'))
          => (last'.ret = -ENOSPC /\ rb' = rb)
    /\ (rb.buf = NULL /\ last'.cmd = "POP")
          => (last'.ret < 0 /\ last'.out = << >> /\ rb' = rb)
    /\ (rb.buf = NULL /\ inited /\ last'.cmd = "POP_SLEEP")
          => /\ rb' = rb
             /\ \E p \in Procs : pc'[p] = "sleep" /\ asleep'[p] /\ p \in rq' /\ ~asleep[p]
    /\ (rb.buf = NULL /\ rb'.buf # NULL)
          => (last'.cmd = "SET_SIZE" /\ last'.ret = 0)

\* C17 (failed resize): a SET_SIZE_OF_QUEUE(c), c > 0, whose kmalloc fails
\* returns -ENOMEM and leaves no storage, size = 0 and count = 0 whatever
\* rb held; rb stays so until a SET_SIZE_OF_QUEUE succeeds; meanwhile every
\* PUSH_DATA returns -ENOSPC with rb untouched, no POP_DATA returns a byte,
\* and (the wait queue having been initialised for the earlier instance) a
\* POP_DATA that passes its staging goes to sleep on rb.rq.
FailedResize == [](rb.buf = NULL => rb = RbZero) /\ [][FailedResizeStep]_vars

\* a resize failed on a buffer that held bytes
FailedResizeWitness ==
    /\ last.cmd = "SET_SIZE"
    /\ last.ret = -ENOMEM
    /\ ~last.empty
    /\ inited
    /\ rb = RbZero

\* the step of a POP_DATA whose copy back to the caller fails after
\* ringbuf_pop_locked ran, and any step of a POP_DATA that hands bytes back
PopFaultStep ==
    /\ (last'.cmd = "POP" /\ last'.ret = -EFAULT /\ last'.popped > 0)
          => LET n == last'.popped IN
             /\ n = Min(last'.length, rb.count)
             /\ rb'.count = rb.count - n
             /\ rb'.head = (rb.head + n) % rb.size
             /\ rb'.tail = rb.tail /\ rb'.size = rb.size /\ rb'.buf = rb.buf
             /\ Contents(rb') = SubSeq(Contents(rb), n + 1, rb.count)
             /\ fifo' = Contents(rb')
             /\ last'.replen = last'.length
    /\ (last'.cmd = "POP" /\ last'.out # << >>)
          => last'.out = SubSeq(fifo, 1, Len(last'.out))

\* C19 (fault after pop): a POP_DATA whose copy_to_user or put_user fails
\* returns -EFAULT with the n bytes ringbuf_pop_locked took already gone:
\* count is lower by n, head is n further, nothing is put back, and since
\* every pop hands back the oldest bytes still stored, no later pop returns
\* them.
PopFaultLosesData == [][PopFaultStep]_vars

\* a Pop(1) on a full buffer of two bytes failed in copy_to_user: one byte is
\* gone, one is left, the caller got nothing
PopFaultLosesDataWitness ==
    /\ last.cmd = "POP"
    /\ last.ret = -EFAULT
    /\ last.popped = 1
    /\ last.out = << >>
    /\ rb.size = 2
    /\ rb.count = 1
    /\ rb.head = 1

(* ========================== claims under Spec ========================== *)

\* C3 (capacity invariant): 0 <= count <= capacity in every reachable state,
\* under any interleaving of SetSize, Push and Pop callers.
CapacityInvariant == 0 <= rb.count /\ rb.count <= rb.size

\* the positions between mutex_lock and mutex_unlock at which a caller still
\* has a statement of ringbuf_free, ringbuf_init, ringbuf_push_locked or
\* ringbuf_pop_locked (or the test of rb.count under the mutex) to run
CriticalPcs == {"ss_free", "ss_init", "push_check", "push_loop", "push_count",
                "pop_check", "pop_tocopy", "pop_loop", "pop_count"}
InCritical == {p \in Procs : pc[p] \in CriticalPcs}

\* C9 (mutual exclusion): at most one caller at a time is inside a
\* lock-protected critical section, and no push or pop is inside its copy
\* loop with the storage freed.
MutualExclusion ==
    /\ Cardinality(InCritical) <= 1
    /\ \A p \in Procs : pc[p] \in {"push_loop", "pop_loop"} => ~NoBuffer(rb)

\* the caller is inside schedule() in wait_event_interruptible
Suspended(p) == pc[p] = "wait_sched"

\* C8 (wake correctness): under fair scheduling a POP_DATA caller that went
\* to sleep queued on rb.rq does not stay inside the sleep forever while
\* rb.count > 0 holds continuously.
WakeCorrectness ==
    \A p \in Procs :
        []((Suspended(p) /\ p \in rq) => []<>(~(Suspended(p) /\ rb.count > 0)))

\* the positions of POP_DATA from the empty branch to the end of the wait
WaitPcs == {"pop_unlock_empty", "wait_cond", "wait_prepare", "wait_recheck",
            "wait_sched"}
NothingPopped == \A p \in Procs : pc[p] \in WaitPcs => (kbuf[p] = << >> /\ tocopy[p] = 0)
InterruptedStep ==
    \A p \in Procs :
        (pc[p] = "wait_recheck" /\ wint[p] # 0 /\ rb.count = 0 /\ pc'[p] # pc[p])
            => /\ pc'[p] = "done"
               /\ ret'[p] = -ERESTARTSYS
               /\ rb' = rb

\* C10 (interrupted pop): a POP_DATA whose wait_event_interruptible is cut
\* short by a signal returns -ERESTARTSYS; that step leaves rb as it was, and
\* a caller on its way into or inside the wait has popped no byte.
InterruptedPop == [](NothingPopped) /\ [][InterruptedStep]_vars

\* a POP_DATA returned -ERESTARTSYS while another caller is in the middle of
\* a push into an existing buffer
InterruptedPopWitness ==
    \E p \in Procs :
        /\ pc[p] = "done" /\ cmd[p] = "POP" /\ ret[p] = -ERESTARTSYS /\ sig[p]
        /\ rb.size > 0
        /\ \E q \in Procs : pc[q] = "push_lock"

(* ======================== claims under FixedSpec ======================= *)

\* the positions of a caller inside POP_DATA
PopPcs == {"pop_lock", "pop_check", "pop_tocopy", "pop_loop", "pop_count",
           "pop_unlock"} \cup WaitPcs

\* a POP_DATA that got past its staging returns only after
\* ringbuf_pop_locked handed it at least one byte, and a POP_DATA that
\* finds rb.count = 0 after it queued itself goes (back) to sleep
PopReturnsBytesStep ==
    \A p \in Procs :
        /\ (pc[p] \in PopPcs /\ pc'[p] = "done")
              => (pc[p] = "pop_unlock" /\ Len(kbuf[p]) >= 1 /\ ret[p] = Len(kbuf[p]))
        /\ (pc[p] = "wait_recheck" /\ rb.count = 0 /\ pc'[p] # pc[p])
              => pc'[p] = "wait_sched"

\* C14 (no lost wakeup on a fixed instance): with no SET_SIZE_OF_QUEUE and
\* no signal after the buffer was created, a caller inside POP_DATA while
\* rb.count > 0 eventually returns, or the bytes are gone to another pop
\* (rb.count = 0); a POP_DATA returns only with bytes popped, and one that
\* finds rb.count = 0 again after a wake-up goes back to waiting.
NoLostWakeup ==
    /\ \A p \in Procs :
          (pc[p] \in PopPcs /\ rb.count > 0) ~> (pc[p] \notin PopPcs \/ rb.count = 0)
    /\ [][PopReturnsBytesStep]_vars

\* a POP_DATA caller queued itself and set TASK_INTERRUPTIBLE after its
\* unlocked test found the buffer empty, while a PUSH_DATA has stored a byte
\* and has not yet called wake_up_interruptible
NoLostWakeupWitness ==
    \E p, q \in Procs :
        /\ pc[p] = "wait_recheck" /\ asleep[p] /\ p \in rq
        /\ rb.count > 0
        /\ pc[q] = "push_unlock" /\ ret[q] > 0

\* the positions at which the caller's next statement reads or writes a
\* field of rb: the locked regions, and the two tests of rb.count > 0 inside
\* wait_event_interruptible
AccessPcs == CriticalPcs \cup {"wait_cond", "wait_recheck"}

\* C15 (every access under the lock): a caller about to read or write
\* rb.buf, rb.size, rb.head, rb.tail or rb.count, the wait predicate
\* rb.count > 0 included, owns rb.lock.
LockedAccess == \A p \in Procs : pc[p] \in AccessPcs => lock = p

\* C16 (push signals before unlocking): a PUSH_DATA that stored its bytes
\* calls wake_up_interruptible while it still owns rb.lock.
PushSignalsLocked == \A p \in Procs : pc[p] = "push_wake" => lock = p

\* C18 (index consistency): whenever no caller is inside a locked region
\* and a buffer exists (rb.size > 0), 0 <= head < size, 0 <= tail < size and
\* tail = (head + count) mod size.
IndexConsistency ==
    (Quiescent /\ rb.size > 0)
        => /\ 0 <= rb.head /\ rb.head < rb.size
           /\ 0 <= rb.tail /\ rb.tail < rb.size
           /\ rb.tail = (rb.head + rb.count) % rb.size

\* a caller that owns rb.lock, is queued on rb.rq or sleeps does so on a
\* mutex and a wait queue head that were initialised
InitialisedBeforeUse ==
    \A p \in Procs : (lock = p \/ p \in rq \/ asleep[p]) => inited

\* the step in which caller p runs init_waitqueue_head and mutex_init
ReinitBy(p) == pc[p] = "ss_init" /\ pc'[p] = "ss_unlock" /\ rb'.buf # NULL

\* init_waitqueue_head and mutex_init run only while no caller owns rb.lock
\* and none is queued on rb.rq
ReinitStep == \A p \in Procs : ReinitBy(p) => (lock = NoProc /\ rq = {})

\* C20 (lock and wait-condition lifecycle): rb.lock and rb.rq are
\* initialised before any caller takes the lock or sleeps on the queue, and
\* are never initialised again while a caller owns the lock or is queued.
LockLifecycle == [](InitialisedBeforeUse) /\ [][ReinitStep]_vars

====
